---- MODULE Spec2Model ----
(***************************************************************************)
(* Model of the extism runtime's CurrentPlugin (the host/guest memory      *)
(* bridge, the error channel and the MemoryLimiter) from                   *)
(* src/runtime/src/current_plugin.rs, and of the Manifest and its builder  *)
(* operations from src/manifest/src/lib.rs.                                *)
(*                                                                         *)
(* 64-bit words (usize, u64, i64).  TLC's integers are 32 bits wide, so a  *)
(* 64-bit word w is represented by its residue of least magnitude:         *)
(* r >= 0 stands for the word r, r < 0 stands for the word 2^64 + r.  On   *)
(* these representatives wrapping addition and subtraction are + and -,    *)
(* the `as i64` / `as u64` casts keep the representative, and only the     *)
(* unsigned comparisons differ from the integer ones (UGt, UGe below).     *)
(* Every word of the model lies within a few pages of 0 or of 2^64, so the *)
(* representation is exact for the operations the code performs.           *)
(***************************************************************************)
EXTENDS Integers, Sequences, FiniteSets, TLC

VARIABLES
    plugin_vars,       \* CurrentPlugin.vars     : BTreeMap<String, Vec<u8>>
    manifest,          \* CurrentPlugin.manifest : Manifest (also while it is being built)
    http_status,       \* CurrentPlugin.http_status : u16
    available_pages,   \* CurrentPlugin.available_pages : Option<u32>
    memory_limiter,    \* CurrentPlugin.memory_limiter  : Option<MemoryLimiter>
    overflow_checks,   \* build profile: are arithmetic overflow checks compiled in
    store,             \* CurrentPlugin.store and .linker: "null" or "valid" (set together)
    exports,           \* guest: the names the linker resolves in module "env"
    mem_pages,         \* guest: size of the linear memory, in pages
    blocks,            \* guest: the allocator's live blocks, <<offset, length>>
    mem,               \* guest: the bytes of the heap cells 1..HeapCells
    error,             \* guest: the offset stored by extism_error_set
    accepted,          \* history: the non-zero deltas of the growths accepted since new/reset
    last               \* history: the last operation, its inputs, pre-state and result

guestVars == <<exports, mem_pages, blocks, mem, error>>
hostVars == <<plugin_vars, manifest, http_status>>
vars == <<plugin_vars, manifest, http_status, available_pages, memory_limiter, overflow_checks, store, exports, mem_pages,
          blocks, mem, error, accepted, last>>

----------------------------------------------------------------------------
(* Bounds of the model *)

\* largest page ceiling a context is created with
MaxPages == 2
\* largest size, in pages, named by a growth request
ReqPages == 3
\* largest table size named by a table growth request
MaxTable == 2

\* number of heap cells (addresses 1..HeapCells) the guest allocator hands out
HeapCells == 2
\* largest number of bytes asked of allocate, and largest handle length
MaxLen == 2
\* largest size of the guest's linear memory, in pages
MaxMemPages == 2

\* longest list of allowed hosts a manifest is given
MaxHosts == 2
\* largest number of items of an iterator passed to a builder operation
MaxItems == 2

\* bytes per WebAssembly page
PageSize == 65536

----------------------------------------------------------------------------
(* Option<T> *)

None == [some |-> FALSE]
Some(x) == [some |-> TRUE, v |-> x]
Option(S) == {None} \cup {Some(x) : x \in S}

(* unsigned comparison of two 64-bit words given by their representatives *)
UGt(a, b) == IF (a < 0) = (b < 0) THEN a > b ELSE a < 0
UGe(a, b) == a = b \/ UGt(a, b)

----------------------------------------------------------------------------
(* BTreeMap<K, V>: a set of <<key, value>> entries with distinct keys *)

\* BTreeMap::insert: the entry replaces the one of the same key
insert(m, k, v) == {e \in m : e[1] # k} \cup {<<k, v>>}

\* inserting the <<key, value>> items of an iterator in order (Iterator::collect
\* starts from the empty map)
RECURSIVE extend(_, _)
extend(m, items) ==
    IF items = <<>> THEN m
    ELSE extend(insert(m, Head(items)[1], Head(items)[2]), Tail(items))

----------------------------------------------------------------------------
(* Manifest *)

\* fn default_timeout
default_timeout == Some(30000)

MemoryOptions(max_pages) == [max_pages |-> max_pages]

\* #[derive(Default)] for Manifest: every field is its type's default
ManifestDefault ==
    [wasm |-> <<>>, memory |-> MemoryOptions(None), config |-> {},
     allowed_hosts |-> None, allowed_paths |-> None, timeout_ms |-> None]

\* Manifest::new
ManifestNew(wasm) ==
    [ManifestDefault EXCEPT !.wasm = wasm, !.timeout_ms = default_timeout]

\* the value of a field of a parsed document, or dflt when the field is missing
Field(json, name, dflt) ==
    IF \E e \in json : e[1] = name
    THEN (CHOOSE e \in json : e[1] = name)[2]
    ELSE dflt

\* #[derive(Deserialize)] for Manifest: #[serde(default)] on every field,
\* #[serde(default = "default_timeout")] on timeout_ms
ManifestDeserialize(json) ==
    [wasm |-> Field(json, "wasm", <<>>),
     memory |-> Field(json, "memory", MemoryOptions(None)),
     config |-> Field(json, "config", {}),
     allowed_hosts |-> Field(json, "allowed_hosts", None),
     allowed_paths |-> Field(json, "allowed_paths", None),
     timeout_ms |-> Field(json, "timeout_ms", default_timeout)]

\* disallow_all_hosts clearing the list to absent
disallow_all_hosts_none(self) == [self EXCEPT !.allowed_hosts = None]

\* Manifest::disallow_all_hosts
disallow_all_hosts(self) == [self EXCEPT !.allowed_hosts = Some(<<>>)]

\* Manifest::with_memory_options
with_memory_options(self, memory) == [self EXCEPT !.memory = memory]

\* Manifest::with_memory_max
with_memory_max(self, max) == [self EXCEPT !.memory.max_pages = Some(max)]

\* Manifest::with_allowed_host
with_allowed_host(self, host) ==
    IF self.allowed_hosts.some
    THEN [self EXCEPT !.allowed_hosts = Some(Append(@.v, host))]
    ELSE [self EXCEPT !.allowed_hosts = Some(<<host>>)]

\* Manifest::with_allowed_hosts
with_allowed_hosts(self, hosts) == [self EXCEPT !.allowed_hosts = Some(hosts)]

\* with_allowed_path keeping the entry a host path already has
with_allowed_path_keep(self, src, dest) ==
    IF self.allowed_paths.some
    THEN [self EXCEPT !.allowed_paths =
             IF \E e \in @.v : e[1] = src THEN @ ELSE Some(insert(@.v, src, dest))]
    ELSE [self EXCEPT !.allowed_paths = Some(insert({}, src, dest))]

\* Manifest::with_allowed_path
with_allowed_path(self, src, dest) ==
    IF self.allowed_paths.some
    THEN [self EXCEPT !.allowed_paths = Some(insert(@.v, src, dest))]
    ELSE [self EXCEPT !.allowed_paths = Some(insert({}, src, dest))]

\* Manifest::with_allowed_paths
with_allowed_paths(self, paths) == [self EXCEPT !.allowed_paths = Some(extend({}, paths))]

\* with_config setting the configuration to the given entries alone
with_config_replace(self, c) == [self EXCEPT !.config = extend({}, c)]

\* Manifest::with_config
with_config(self, c) == [self EXCEPT !.config = extend(@, c)]

\* Manifest::with_config_key
with_config_key(self, k, v) == [self EXCEPT !.config = insert(@, k, v)]

\* std::time::Duration and Duration::as_millis
Duration(secs, nanos) == [secs |-> secs, nanos |-> nanos]
as_millis(d) == d.secs * 1000 + d.nanos \div 1000000

\* Manifest::with_timeout
with_timeout(self, timeout) == [self EXCEPT !.timeout_ms = Some(as_millis(timeout))]

----------------------------------------------------------------------------
(* MemoryLimiter *)

\* new installing a limiter with the largest budget when no ceiling is declared
NewMemoryLimiter_unbounded(pages) ==
    IF pages.some
    THEN Some([max_bytes |-> pages.v * PageSize, bytes_left |-> pages.v * PageSize])
    ELSE Some([max_bytes |-> 0 - 1, bytes_left |-> 0 - 1])

\* CurrentPlugin::new: the limiter built from the page ceiling
NewMemoryLimiter(pages) ==
    IF pages.some
    THEN Some([max_bytes |-> pages.v * PageSize, bytes_left |-> pages.v * PageSize])
    ELSE None

\* reset leaving the budget as it is
reset_keep(self) == self

\* MemoryLimiter::reset
reset(self) == [self EXCEPT !.bytes_left = self.max_bytes]

\* memory_growing rejecting a delta equal to the remaining budget
memory_growing_offbyone(self, current, desired, maximum, checks) ==
    IF maximum.some /\ UGe(desired, maximum.v)
    THEN [res |-> "Err", self |-> self]
    ELSE IF checks /\ UGt(current, desired)
    THEN [res |-> "panic", self |-> self]
    ELSE LET d == desired - current IN
         IF UGe(d, self.bytes_left)
         THEN [res |-> "Err", self |-> self]
         ELSE [res |-> "Ok(true)", self |-> [self EXCEPT !.bytes_left = @ - d]]

\* memory_growing allowing a growth to exactly the declared maximum
memory_growing_gt_max(self, current, desired, maximum, checks) ==
    IF maximum.some /\ UGt(desired, maximum.v)
    THEN [res |-> "Err", self |-> self]
    ELSE IF checks /\ UGt(current, desired)
    THEN [res |-> "panic", self |-> self]
    ELSE LET d == desired - current IN
         IF UGt(d, self.bytes_left)
         THEN [res |-> "Err", self |-> self]
         ELSE [res |-> "Ok(true)", self |-> [self EXCEPT !.bytes_left = @ - d]]

\* memory_growing without the budget check
memory_growing_nocheck(self, current, desired, maximum, checks) ==
    IF maximum.some /\ UGe(desired, maximum.v)
    THEN [res |-> "Err", self |-> self]
    ELSE IF checks /\ UGt(current, desired)
    THEN [res |-> "panic", self |-> self]
    ELSE [res |-> "Ok(true)",
          self |-> [self EXCEPT !.bytes_left = @ - (desired - current)]]

\* memory_growing allowing a growth without taking it from the budget
memory_growing_nocharge(self, current, desired, maximum, checks) ==
    IF maximum.some /\ UGe(desired, maximum.v)
    THEN [res |-> "Err", self |-> self]
    ELSE IF checks /\ UGt(current, desired)
    THEN [res |-> "panic", self |-> self]
    ELSE LET d == desired - current IN
         IF UGt(d, self.bytes_left)
         THEN [res |-> "Err", self |-> self]
         ELSE [res |-> "Ok(true)", self |-> self]

\* memory_growing giving up the remaining budget when it rejects for the budget
memory_growing_poison(self, current, desired, maximum, checks) ==
    IF maximum.some /\ UGe(desired, maximum.v)
    THEN [res |-> "Err", self |-> self]
    ELSE IF checks /\ UGt(current, desired)
    THEN [res |-> "panic", self |-> self]
    ELSE LET d == desired - current IN
         IF UGt(d, self.bytes_left)
         THEN [res |-> "Err", self |-> [self EXCEPT !.bytes_left = 0]]
         ELSE [res |-> "Ok(true)", self |-> [self EXCEPT !.bytes_left = @ - d]]

\* MemoryLimiter::memory_growing.  `desired - current` is a usize subtraction:
\* when desired < current it panics in a build with overflow checks and wraps
\* in a build without them.
memory_growing(self, current, desired, maximum, checks) ==
    IF maximum.some /\ UGe(desired, maximum.v)
    THEN [res |-> "Err", self |-> self]
    ELSE IF checks /\ UGt(current, desired)
    THEN [res |-> "panic", self |-> self]
    ELSE LET d == desired - current IN
         IF UGt(d, self.bytes_left)
         THEN [res |-> "Err", self |-> self]
         ELSE [res |-> "Ok(true)", self |-> [self EXCEPT !.bytes_left = @ - d]]

\* table_growing refusing a growth to exactly the declared maximum
table_growing_lt(self, current, desired, maximum) ==
    IF maximum.some
    THEN [res |-> IF desired < maximum.v THEN "Ok(true)" ELSE "Ok(false)", self |-> self]
    ELSE [res |-> "Ok(true)", self |-> self]

\* MemoryLimiter::table_growing
table_growing(self, current, desired, maximum) ==
    IF maximum.some
    THEN [res |-> IF desired <= maximum.v THEN "Ok(true)" ELSE "Ok(false)", self |-> self]
    ELSE [res |-> "Ok(true)", self |-> self]

----------------------------------------------------------------------------
(* The limiter as the engine drives it *)

\* sizes a request can name: whole pages near 0, and the last page below 2^64
Sizes == {k * PageSize : k \in 0..ReqPages} \cup {0 - PageSize}
Maxima == Option({k * PageSize : k \in 1..ReqPages})

NoCall == [op |-> "new", out |-> [tag |-> "Ok"], calls |-> <<>>, views |-> <<>>]

\* the names a guest implementing the whole ABI exports
AllExports == {"memory", "extism_alloc", "extism_free", "extism_length",
               "extism_error_set", "extism_error_get"}

\* CurrentPlugin::new: null linker and store, the limiter from the page ceiling
InitContext ==
    /\ plugin_vars = {}
    /\ manifest = ManifestNew(<<>>)
    /\ http_status = 0
    /\ available_pages \in Option(0..MaxPages)
    /\ memory_limiter = NewMemoryLimiter(available_pages)
    /\ overflow_checks \in BOOLEAN
    /\ store = "null"
    /\ accepted = <<>>
    /\ last = NoCall

InitLimiter ==
    /\ InitContext
    /\ exports = AllExports
    /\ mem_pages = 1
    /\ blocks = {}
    /\ mem = [a \in 1..HeapCells |-> 0]
    /\ error = 0

\* the engine asks the installed limiter about a memory growth
MemoryGrowing ==
    /\ memory_limiter.some
    /\ \E current \in Sizes, desired \in Sizes, maximum \in Maxima :
          LET r == memory_growing(memory_limiter.v, current, desired, maximum,
                                  overflow_checks) IN
          /\ memory_limiter' = Some(r.self)
          /\ accepted' = IF r.res = "Ok(true)" /\ desired # current
                         THEN Append(accepted, desired - current)
                         ELSE accepted
          /\ last' = [op |-> "memory_growing", current |-> current,
                      desired |-> desired, maximum |-> maximum,
                      pre |-> memory_limiter.v, res |-> r.res,
                      prev |-> IF last.op = "memory_growing" THEN last.res ELSE "none"]
    /\ UNCHANGED <<available_pages, overflow_checks, store, guestVars, hostVars>>

\* the engine asks the installed limiter about a table growth
TableGrowing ==
    /\ memory_limiter.some
    /\ \E current \in 0..MaxTable, desired \in 0..MaxTable, maximum \in Option(0..MaxTable) :
          LET r == table_growing(memory_limiter.v, current, desired, maximum) IN
          /\ memory_limiter' = Some(r.self)
          /\ last' = [op |-> "table_growing", current |-> current,
                      desired |-> desired, maximum |-> maximum,
                      pre |-> memory_limiter.v, res |-> r.res]
    /\ UNCHANGED <<available_pages, overflow_checks, accepted, store, guestVars, hostVars>>

\* a fresh instantiation resets the installed limiter
Reset ==
    /\ memory_limiter.some
    /\ memory_limiter' = Some(reset(memory_limiter.v))
    /\ accepted' = <<>>
    /\ last' = [op |-> "reset", pre |-> memory_limiter.v]
    /\ UNCHANGED <<available_pages, overflow_checks, store, guestVars, hostVars>>

NextLimiter == MemoryGrowing \/ TableGrowing \/ Reset

SpecLimiter == InitLimiter /\ [][NextLimiter]_vars

----------------------------------------------------------------------------
(* The manifest as the embedding application builds it *)

\* the sequences of at most n items of S
Lists(S, n) == UNION {[1..k -> S] : k \in 0..n}
\* those that name no item twice
Picks(S, n) == {l \in Lists(S, n) : \A i \in 1..Len(l), j \in 1..Len(l) : l[i] = l[j] => i = j}

WasmLists == {<<"main.wasm">>}
\* parsed documents: without fields, with a null timeout_ms, with a module
Documents == {{}, {<<"timeout_ms", None>>}, {<<"wasm", <<"main.wasm">>>>}}
Hosts == {"a.com", "*.b.org"}
\* <<host path, guest path>>
PathPairs == {<<".", "/tmp">>, <<".", "/mnt">>, <<"/data", "/tmp">>}
\* <<key, value>>
ConfigPairs == {<<"a", "1">>, <<"a", "2">>, <<"b", "1">>}
PageMaxima == {4}
Durations == {Duration(0, 1500000)}

\* the fields of the context and of the guest, which do not exist yet
NoContext ==
    /\ plugin_vars = {}
    /\ http_status = 0
    /\ available_pages = None
    /\ memory_limiter = None
    /\ overflow_checks = FALSE
    /\ store = "null"
    /\ accepted = <<>>
    /\ exports = AllExports
    /\ mem_pages = 1
    /\ blocks = {}
    /\ mem = [a \in 1..HeapCells |-> 0]
    /\ error = 0

\* the manifest from Manifest::default(), Manifest::new(wasm) or a parsed document
InitManifest ==
    /\ NoContext
    /\ \/ manifest = ManifestDefault /\ last = [op |-> "Manifest::default", arg |-> "()"]
       \/ \E wasm \in WasmLists :
             manifest = ManifestNew(wasm) /\ last = [op |-> "Manifest::new", arg |-> wasm]
       \/ \E json \in Documents :
             manifest = ManifestDeserialize(json) /\ last = [op |-> "deserialize", arg |-> json]

\* a builder operation op(arg) returning the manifest m
Build(op, arg, m) ==
    /\ manifest' = m
    /\ last' = [op |-> op, arg |-> arg]
    /\ UNCHANGED <<plugin_vars, http_status, available_pages, memory_limiter,
                   overflow_checks, store, accepted, guestVars>>

DisallowAllHosts ==
    /\ manifest' = disallow_all_hosts(manifest)
    /\ last' = [op |-> "disallow_all_hosts", arg |-> "()", old |-> manifest.allowed_hosts]
    /\ UNCHANGED <<plugin_vars, http_status, available_pages, memory_limiter,
                   overflow_checks, store, accepted, guestVars>>

WithMemoryOptions ==
    \E memory \in {MemoryOptions(o) : o \in Option(PageMaxima)} :
        Build("with_memory_options", memory, with_memory_options(manifest, memory))

WithMemoryMax ==
    \E max \in PageMaxima : Build("with_memory_max", max, with_memory_max(manifest, max))

WithAllowedHost ==
    /\ manifest.allowed_hosts.some => Len(manifest.allowed_hosts.v) < MaxHosts
    /\ \E host \in Hosts : Build("with_allowed_host", host, with_allowed_host(manifest, host))

WithAllowedHosts ==
    \E hosts \in Lists(Hosts, MaxHosts) :
        Build("with_allowed_hosts", hosts, with_allowed_hosts(manifest, hosts))

WithAllowedPath ==
    \E p \in PathPairs : Build("with_allowed_path", p, with_allowed_path(manifest, p[1], p[2]))

WithAllowedPaths ==
    \E paths \in Picks(PathPairs, MaxItems) :
        Build("with_allowed_paths", paths, with_allowed_paths(manifest, paths))

WithConfig ==
    \E c \in Picks(ConfigPairs, MaxItems) : Build("with_config", c, with_config(manifest, c))

WithConfigKey ==
    \E p \in ConfigPairs : Build("with_config_key", p, with_config_key(manifest, p[1], p[2]))

WithTimeout ==
    \E timeout \in Durations : Build("with_timeout", timeout, with_timeout(manifest, timeout))

NextManifest ==
    \/ DisallowAllHosts \/ WithMemoryOptions \/ WithMemoryMax
    \/ WithAllowedHost \/ WithAllowedHosts \/ WithAllowedPath \/ WithAllowedPaths
    \/ WithConfig \/ WithConfigKey \/ WithTimeout

SpecManifest == InitManifest /\ [][NextManifest]_vars

----------------------------------------------------------------------------
(* Results, handles, views *)

Ok(v) == [tag |-> "Ok", v |-> v]
Err(m) == [tag |-> "Err", v |-> m]
Panic == [tag |-> "panic"]
\* what a build can do on undefined behaviour: fault, or carry on with a wild reference
UBOutcomes == {"segfault", "wild"}
UB(u) == [tag |-> u]

MemoryHandle(offset, length) == [offset |-> offset, length |-> length]
Sentinel == MemoryHandle(0, 0)

\* `&mut []`: the empty slice outside guest memory
EmptyView == [kind |-> "empty", offset |-> 0, length |-> 0]
\* slice::from_raw_parts_mut(data_ptr + offset, length)
View(offset, length) == [kind |-> "guest", offset |-> offset, length |-> length]

\* mem.data_ptr(&store): the host address of the linear memory (any non-null address)
DataPtr == 16 * PageSize

\* the mutable state an operation works on
Cur == [blocks |-> blocks, mem |-> mem, mem_pages |-> mem_pages, error |-> error,
        limiter |-> memory_limiter, accepted |-> accepted]

\* what an operation yields: its result, the guest functions it called, the
\* handles it turned into views of guest memory, and the state it leaves
Ret(out, calls, views, st) == [out |-> out, calls |-> calls, views |-> views, st |-> st]

\* a call of a guest function: its name, argument, whether it trapped, what it returned
Call(f, arg, trap, ret) == [f |-> f, arg |-> arg, trap |-> trap, ret |-> ret]

InBounds(st, offset, length) ==
    offset >= 0 /\ length >= 0 /\ offset + length <= st.mem_pages * PageSize

\* the byte at an address of the linear memory (zero outside the heap cells)
Cell(st, a) == IF a \in 1..HeapCells THEN st.mem[a] ELSE 0
ReadBytes(st, offset, length) == [i \in 1..length |-> Cell(st, offset + i - 1)]
WriteBytes(st, offset, data) ==
    [st EXCEPT !.mem = [a \in 1..HeapCells |->
        IF a >= offset /\ a < offset + Len(data) THEN data[a - offset + 1] ELSE @[a]]]

----------------------------------------------------------------------------
(* The guest's side of the ABI *)

\* extism_length(offset): the length of the live block at offset, 0 if there is none
extism_length(st, offs) ==
    IF \E b \in st.blocks : b[1] = offs
    THEN (CHOOSE b \in st.blocks : b[1] = offs)[2]
    ELSE 0

\* a free extent of n heap cells at o
Fits(st, o, n) ==
    /\ n >= 1 /\ o >= 1 /\ o + n - 1 <= HeapCells
    /\ \A b \in st.blocks : b[1] + b[2] <= o \/ o + n <= b[1]

\* what the allocator may do with a request for n bytes: fail, be interrupted,
\* or place the block, possibly growing the memory by a page first
AllocChoices(st, n) ==
    {[kind |-> "fail"], [kind |-> "trap"]} \cup
    {[kind |-> "place", offs |-> o, grow |-> k] :
        o \in {x \in 1..HeapCells : Fits(st, x, n)},
        k \in {x \in 0..1 : st.mem_pages + x <= MaxMemPages}}

\* memory.grow by k pages: the engine asks the limiter when one is installed,
\* and a limiter error traps
GuestGrow(st, k) ==
    LET current == st.mem_pages * PageSize
        desired == (st.mem_pages + k) * PageSize
        grown == [st EXCEPT !.mem_pages = @ + k]
    IN  IF k = 0 THEN [trap |-> FALSE, st |-> st]
        ELSE IF ~st.limiter.some THEN [trap |-> FALSE, st |-> grown]
        ELSE LET r == memory_growing(st.limiter.v, current, desired, None, overflow_checks)
             IN  IF r.res = "Ok(true)"
                 THEN [trap |-> FALSE,
                       st |-> [grown EXCEPT !.limiter = Some(r.self),
                                            !.accepted = Append(@, desired - current)]]
                 ELSE [trap |-> TRUE, st |-> st]

\* extism_alloc(n): the offset of a new block, 0 on failure
extism_alloc(st, n, c) ==
    IF c.kind = "fail" THEN [trap |-> FALSE, ret |-> 0, st |-> st]
    ELSE IF c.kind = "trap" THEN [trap |-> TRUE, ret |-> 0, st |-> st]
    ELSE LET g == GuestGrow(st, c.grow) IN
         IF g.trap THEN [trap |-> TRUE, ret |-> 0, st |-> st]
         ELSE [trap |-> FALSE, ret |-> c.offs,
               st |-> [g.st EXCEPT !.blocks = @ \cup {<<c.offs, n>>}]]

\* extism_free(offset)
extism_free(st, offs) == [st EXCEPT !.blocks = {b \in @ : b[1] # offs}]

----------------------------------------------------------------------------
(* CurrentPlugin: the memory bridge *)

\* Internal::linker_and_store dereferences the raw pointers unchecked
NullStore == store = "null"

\* CurrentPlugin::memory_length
memory_length(st, offs, c) ==
    IF NullStore THEN Ret(UB(c.ub), <<>>, <<>>, st)
    ELSE IF "extism_length" \notin exports THEN Ret(Panic, <<>>, <<>>, st)
    ELSE IF c.trap THEN Ret(Panic, <<Call("extism_length", offs, TRUE, 0)>>, <<>>, st)
    ELSE LET len == extism_length(st, offs) IN
         Ret(Ok(len), <<Call("extism_length", offs, FALSE, len)>>, <<>>, st)

\* memory_handle returning a handle also for a zero length
memory_handle_always(st, offs, c) ==
    LET l == memory_length(st, offs, c) IN
    IF l.out.tag # "Ok" THEN l
    ELSE [l EXCEPT !.out = Ok(Some(MemoryHandle(offs, l.out.v)))]

\* CurrentPlugin::memory_handle
memory_handle(st, offs, c) ==
    LET l == memory_length(st, offs, c) IN
    IF l.out.tag # "Ok" THEN l
    ELSE IF l.out.v = 0 THEN [l EXCEPT !.out = Ok(None)]
    ELSE [l EXCEPT !.out = Ok(Some(MemoryHandle(offs, l.out.v)))]

\* CurrentPlugin::memory_bytes.  The pointer is data_ptr + offset with no
\* bounds check: beyond the memory, offsetting the pointer and building the
\* slice is undefined behaviour.
memory_bytes(st, handle, c) ==
    IF NullStore THEN Ret(UB(c.ub), <<>>, <<>>, st)
    ELSE IF "memory" \notin exports THEN Ret(Panic, <<>>, <<>>, st)
    ELSE IF DataPtr + handle.offset = 0 THEN Ret(Ok(EmptyView), <<>>, <<>>, st)
    ELSE IF InBounds(st, handle.offset, handle.length) \/ c.ub = "wild"
    THEN Ret(Ok(View(handle.offset, handle.length)), <<>>, <<handle>>, st)
    ELSE Ret(UB(c.ub), <<>>, <<handle>>, st)

\* wasmtime::Val: a 64-bit or a 32-bit integer
ValI64(x) == [ty |-> "I64", v |-> x]
ValI32(x) == [ty |-> "I32", v |-> x]

\* memory_to_val carrying the end of the block instead of its offset
memory_to_val_end(handle) == ValI64(handle.offset + handle.length)

\* CurrentPlugin::memory_to_val
memory_to_val(handle) == ValI64(handle.offset)

\* CurrentPlugin::memory_from_val: no handle for a value that is not an i64
memory_from_val(st, offs, c) ==
    IF offs.ty # "I64" THEN Ret(Ok(None), <<>>, <<>>, st)
    ELSE LET l == memory_length(st, offs.v, c) IN
         IF l.out.tag # "Ok" THEN l
         ELSE IF l.out.v = 0 THEN [l EXCEPT !.out = Ok(None)]
         ELSE [l EXCEPT !.out = Ok(Some(MemoryHandle(offs.v, l.out.v)))]

\* memory_alloc asking the guest also for zero bytes
memory_alloc_noshortcut(st, n, c) ==
    IF NullStore THEN Ret(UB(c.ub), <<>>, <<>>, st)
    ELSE IF "extism_alloc" \notin exports
    THEN Ret(Err("Unable to allocate memory"), <<>>, <<>>, st)
    ELSE LET g == extism_alloc(st, n, c.alloc)
             calls == <<Call("extism_alloc", n, g.trap, g.ret)>>
         IN  IF g.trap THEN Ret(Err("trap"), calls, <<>>, g.st)
             ELSE IF g.ret = 0 THEN Ret(Err("out of memory"), calls, <<>>, g.st)
             ELSE Ret(Ok(MemoryHandle(g.ret, n)), calls, <<>>, g.st)

\* memory_alloc not looking at the offset the allocator returned
memory_alloc_nozero(st, n, c) ==
    IF n = 0 THEN Ret(Ok(Sentinel), <<>>, <<>>, st)
    ELSE IF NullStore THEN Ret(UB(c.ub), <<>>, <<>>, st)
    ELSE IF "extism_alloc" \notin exports
    THEN Ret(Err("Unable to allocate memory"), <<>>, <<>>, st)
    ELSE LET g == extism_alloc(st, n, c.alloc)
             calls == <<Call("extism_alloc", n, g.trap, g.ret)>>
         IN  IF g.trap THEN Ret(Err("trap"), calls, <<>>, g.st)
             ELSE Ret(Ok(MemoryHandle(g.ret, n)), calls, <<>>, g.st)

\* CurrentPlugin::memory_alloc
memory_alloc(st, n, c) ==
    IF n = 0 THEN Ret(Ok(Sentinel), <<>>, <<>>, st)
    ELSE IF NullStore THEN Ret(UB(c.ub), <<>>, <<>>, st)
    ELSE IF "extism_alloc" \notin exports
    THEN Ret(Err("Unable to allocate memory"), <<>>, <<>>, st)
    ELSE LET g == extism_alloc(st, n, c.alloc)
             calls == <<Call("extism_alloc", n, g.trap, g.ret)>>
         IN  IF g.trap THEN Ret(Err("trap"), calls, <<>>, g.st)
             ELSE IF g.ret = 0 THEN Ret(Err("out of memory"), calls, <<>>, g.st)
             ELSE Ret(Ok(MemoryHandle(g.ret, n)), calls, <<>>, g.st)

\* memory_free giving the budget back to the limiter
memory_free_refund(st, handle, c) ==
    IF NullStore THEN Ret(UB(c.ub), <<>>, <<>>, st)
    ELSE IF "extism_free" \notin exports THEN Ret(Panic, <<>>, <<>>, st)
    ELSE IF c.trap
    THEN Ret(Err("trap"), <<Call("extism_free", handle.offset, TRUE, 0)>>, <<>>, st)
    ELSE Ret(Ok("()"), <<Call("extism_free", handle.offset, FALSE, 0)>>, <<>>,
             [extism_free(st, handle.offset) EXCEPT
                 !.limiter = IF @.some THEN Some(reset(@.v)) ELSE @])

\* CurrentPlugin::memory_free
memory_free(st, handle, c) ==
    IF NullStore THEN Ret(UB(c.ub), <<>>, <<>>, st)
    ELSE IF "extism_free" \notin exports THEN Ret(Panic, <<>>, <<>>, st)
    ELSE IF c.trap
    THEN Ret(Err("trap"), <<Call("extism_free", handle.offset, TRUE, 0)>>, <<>>, st)
    ELSE Ret(Ok("()"), <<Call("extism_free", handle.offset, FALSE, 0)>>, <<>>,
             extism_free(st, handle.offset))

----------------------------------------------------------------------------
(* Typed values and their byte encodings (ToBytes / FromBytes).  Two types:  *)
(* "bytes", encoded as the bytes themselves, and "str", a string of code     *)
(* points below 2048 encoded as UTF-8.                                       *)

Utf8Char(cp) == IF cp < 128 THEN <<cp>> ELSE <<192 + (cp \div 64), 128 + (cp % 64)>>

RECURSIVE Utf8Encode(_)
Utf8Encode(cps) == IF cps = <<>> THEN <<>> ELSE Utf8Char(Head(cps)) \o Utf8Encode(Tail(cps))

IsCont(b) == b >= 128 /\ b <= 191

Invalid == [ok |-> FALSE, cps |-> <<>>]
Cons(cp, rest) == IF rest.ok THEN [ok |-> TRUE, cps |-> <<cp>> \o rest.cps] ELSE Invalid

\* std::str::from_utf8 on one- and two-byte sequences: the code points, or
\* Invalid (a stray continuation byte, an overlong or truncated sequence, a
\* lead byte of a longer sequence)
RECURSIVE Utf8Decode(_)
Utf8Decode(bs) ==
    IF bs = <<>> THEN [ok |-> TRUE, cps |-> <<>>]
    ELSE IF bs[1] < 128 THEN Cons(bs[1], Utf8Decode(Tail(bs)))
    ELSE IF bs[1] >= 194 /\ bs[1] <= 223 /\ Len(bs) >= 2 /\ IsCont(bs[2])
    THEN Cons((bs[1] - 192) * 64 + (bs[2] - 128), Utf8Decode(Tail(Tail(bs))))
    ELSE Invalid

Value(type, v) == [type |-> type, v |-> v]
\* ToBytes::to_bytes
to_bytes(t) == IF t.type = "str" THEN Utf8Encode(t.v) ELSE t.v
\* FromBytes::from_bytes
from_bytes(type, data) ==
    IF type = "str"
    THEN LET d == Utf8Decode(data) IN
         IF d.ok THEN Ok(Value("str", d.cps)) ELSE Err("decode")
    ELSE Ok(Value("bytes", data))

\* the values host functions write: empty and non-empty, of both types
Values == {Value("bytes", <<>>), Value("bytes", <<195, 169>>),
           Value("str", <<>>), Value("str", <<233>>)}
Types == {"bytes", "str"}

\* memory_new copying the data one byte further than the handle says
memory_new_shifted(st, t, c) ==
    LET data == to_bytes(t)
        a == memory_alloc(st, Len(data), c)
    IN  IF a.out.tag # "Ok" THEN a
        ELSE LET b == memory_bytes(a.st, a.out.v, c) IN
             IF b.out.tag # "Ok" THEN Ret(b.out, a.calls, b.views, a.st)
             ELSE Ret(Ok(a.out.v), a.calls, b.views,
                      WriteBytes(a.st, b.out.v.offset + 1, data))

\* CurrentPlugin::memory_new: encode, allocate, copy
memory_new(st, t, c) ==
    LET data == to_bytes(t)
        a == memory_alloc(st, Len(data), c)
    IN  IF a.out.tag # "Ok" THEN a
        ELSE LET b == memory_bytes(a.st, a.out.v, c) IN
             IF b.out.tag # "Ok" THEN Ret(b.out, a.calls, b.views, a.st)
             \* copy_from_slice panics when the lengths differ
             ELSE IF b.out.v.length # Len(data) THEN Ret(Panic, a.calls, b.views, a.st)
             \* copying through a view that leaves the memory is undefined
             ELSE IF ~InBounds(a.st, b.out.v.offset, b.out.v.length)
             THEN Ret(UB(c.ub), a.calls, b.views, a.st)
             ELSE Ret(Ok(a.out.v), a.calls, b.views,
                      WriteBytes(a.st, b.out.v.offset, data))

\* CurrentPlugin::memory_get: the bytes of the view, decoded
memory_get(st, handle, type, c) ==
    LET b == memory_bytes(st, handle, c) IN
    IF b.out.tag # "Ok" THEN b
    \* reading through a view that leaves the memory is undefined
    ELSE IF ~InBounds(st, b.out.v.offset, b.out.v.length)
    THEN [b EXCEPT !.out = UB(c.ub)]
    ELSE [b EXCEPT !.out = from_bytes(type, ReadBytes(st, b.out.v.offset, b.out.v.length))]

\* CurrentPlugin::memory_str: the bytes of the view, validated as UTF-8
memory_str(st, handle, c) == memory_get(st, handle, "str", c)

----------------------------------------------------------------------------
(* CurrentPlugin: the error channel *)

\* CurrentPlugin::clear_error: a missing extism_error_set export is skipped
clear_error(st, c) ==
    IF NullStore THEN Ret(UB(c.ub), <<>>, <<>>, st)
    ELSE IF "extism_error_set" \notin exports THEN Ret(Ok("()"), <<>>, <<>>, st)
    ELSE IF c.trap THEN Ret(Panic, <<Call("extism_error_set", 0, TRUE, 0)>>, <<>>, st)
    ELSE Ret(Ok("()"), <<Call("extism_error_set", 0, FALSE, 0)>>, <<>>,
             [st EXCEPT !.error = 0])

\* CurrentPlugin::has_error
has_error(st, c) ==
    IF NullStore THEN Ret(UB(c.ub), <<>>, <<>>, st)
    ELSE IF "extism_error_get" \notin exports THEN Ret(Panic, <<>>, <<>>, st)
    ELSE IF c.trap THEN Ret(Panic, <<Call("extism_error_get", 0, TRUE, 0)>>, <<>>, st)
    ELSE Ret(Ok(st.error # 0), <<Call("extism_error_get", 0, FALSE, st.error)>>, <<>>, st)

\* CurrentPlugin::get_error_position
get_error_position(st, c) ==
    IF NullStore THEN Ret(UB(c.ub), <<>>, <<>>, st)
    ELSE IF "extism_error_get" \notin exports THEN Ret(Panic, <<>>, <<>>, st)
    ELSE IF c.trap THEN Ret(Panic, <<Call("extism_error_get", 0, TRUE, 0)>>, <<>>, st)
    ELSE LET l == memory_length(st, st.error, [c EXCEPT !.trap = FALSE])
             calls == <<Call("extism_error_get", 0, FALSE, st.error)>> \o l.calls
         IN  IF l.out.tag # "Ok" THEN Ret(l.out, calls, <<>>, st)
             ELSE Ret(Ok(<<st.error, l.out.v>>), calls, <<>>, st)

\* get_error reading a message also at offset zero
get_error_nozero(st, c) ==
    LET p == get_error_position(st, c) IN
    IF p.out.tag # "Ok" THEN p
    ELSE LET m == memory_str(st, MemoryHandle(p.out.v[1], p.out.v[2]), c) IN
         IF m.out.tag = "Ok" THEN Ret(Ok(Some(m.out.v.v)), p.calls, m.views, st)
         ELSE IF m.out.tag = "Err" THEN Ret(Ok(None), p.calls, m.views, st)
         ELSE Ret(m.out, p.calls, m.views, st)

\* CurrentPlugin::get_error
get_error(st, c) ==
    LET p == get_error_position(st, c) IN
    IF p.out.tag # "Ok" THEN p
    ELSE IF p.out.v[1] = 0 THEN [p EXCEPT !.out = Ok(None)]
    ELSE LET m == memory_str(st, MemoryHandle(p.out.v[1], p.out.v[2]), c) IN
         IF m.out.tag = "Ok" THEN Ret(Ok(Some(m.out.v.v)), p.calls, m.views, st)
         ELSE IF m.out.tag = "Err" THEN Ret(Ok(None), p.calls, m.views, st)
         ELSE Ret(m.out, p.calls, m.views, st)

----------------------------------------------------------------------------
(* The bridge as host functions drive it *)

\* after undefined behaviour nothing more is modelled
Running == last.out.tag \notin UBOutcomes

\* the choices left to the build (the outcome of undefined behaviour) and to
\* the guest (a call interrupted by a trap, the allocator's decision) during
\* one operation
NoAlloc == [kind |-> "fail"]
Choices(ubs, traps, allocs) == [ub : ubs, trap : traps, alloc : allocs]
\* operations whose only guest call can trap
UbOrTrap == IF store = "null" THEN Choices(UBOutcomes, {FALSE}, {NoAlloc})
            ELSE Choices({"wild"}, BOOLEAN, {NoAlloc})
\* operations that build a view
UbOnly == Choices(UBOutcomes, {FALSE}, {NoAlloc})
\* a view of handle: the build decides only when the behaviour is undefined
UbFor(handle) ==
    IF store = "null" \/ ~InBounds(Cur, handle.offset, handle.length) THEN UbOnly
    ELSE Choices({"wild"}, {FALSE}, {NoAlloc})
UbAndTrap == IF store = "null" THEN UbOnly ELSE Choices(UBOutcomes, BOOLEAN, {NoAlloc})
\* operations that allocate n bytes
UbAndAlloc(n) ==
    IF store = "null" \/ n = 0 THEN UbOnly
    ELSE Choices({"wild"}, {FALSE}, AllocChoices(Cur, n))

\* the offsets a host function may hold: the heap, the end of the memory, and
\* the offset that makes data_ptr + offset wrap to null
Offsets == (0..HeapCells) \cup {mem_pages * PageSize, 0 - DataPtr}
Handles == {MemoryHandle(o, l) : o \in Offsets, l \in 0..MaxLen}
\* the handles a host function frees or reads a value from: those of the live
\* blocks, the sentinel, a stale one and one past the end of the memory
HeldHandles == {MemoryHandle(b[1], b[2]) : b \in blocks}
               \cup {Sentinel, MemoryHandle(HeapCells, 1),
                     MemoryHandle(mem_pages * PageSize, 1)}

\* the handles a host function reads: the held ones, and one whose pointer
\* wraps to null
ReadHandles == HeldHandles \cup {MemoryHandle(0 - DataPtr, 1)}

\* the variables host functions store
VarKeys == {"count"}
VarValues == {<<1>>}

\* the values a host function receives from the guest
Vals == {ValI64(o) : o \in Offsets} \cup {ValI32(1)}

\* the context after CurrentPlugin::new (without a page ceiling, or with one of
\* 0 or 1 page), and a guest with one page of zeroed memory.  The guest's own
\* growth requests always have desired > current, so the bridge is explored
\* for the build without overflow checks only.
InitBridge ==
    /\ plugin_vars = {}
    /\ manifest = ManifestNew(<<>>)
    /\ http_status = 0
    /\ available_pages \in Option(0..1)
    /\ memory_limiter = NewMemoryLimiter(available_pages)
    /\ overflow_checks = FALSE
    /\ store = "null"
    /\ accepted = <<>>
    /\ last = NoCall
    /\ exports \in {AllExports, AllExports \ {"extism_alloc"}, AllExports \ {"memory"}}
    /\ mem_pages = 1
    /\ blocks = {}
    /\ mem = [a \in 1..HeapCells |-> 0]
    /\ error = 0

Apply(op, arg, r) ==
    /\ blocks' = r.st.blocks
    /\ mem' = r.st.mem
    /\ mem_pages' = r.st.mem_pages
    /\ error' = r.st.error
    /\ memory_limiter' = r.st.limiter
    /\ accepted' = r.st.accepted
    /\ last' = [op |-> op, arg |-> arg, out |-> r.out, calls |-> r.calls, views |-> r.views]
    /\ UNCHANGED <<available_pages, overflow_checks, store, exports, hostVars>>

\* the runtime points the context at the engine for the time of a guest call
EnterCall ==
    /\ Running /\ store = "null"
    /\ store' = "valid"
    /\ last' = [op |-> "enter", out |-> Ok("()"), calls |-> <<>>, views |-> <<>>]
    /\ UNCHANGED <<available_pages, memory_limiter, overflow_checks, guestVars, accepted,
                   hostVars>>

LeaveCall ==
    /\ Running /\ store = "valid"
    /\ store' = "null"
    /\ last' = [op |-> "leave", out |-> Ok("()"), calls |-> <<>>, views |-> <<>>]
    /\ UNCHANGED <<available_pages, memory_limiter, overflow_checks, guestVars, accepted,
                   hostVars>>

\* guest code records an error: extism_error_set(offset) from inside the guest
GuestErrorSet ==
    /\ Running /\ store = "valid" /\ "extism_error_set" \in exports
    /\ \E offs \in 0..1 :
          /\ error' = offs
          /\ last' = [op |-> "guest_error_set", arg |-> offs, out |-> Ok("()"),
                      calls |-> <<>>, views |-> <<>>]
    /\ UNCHANGED <<available_pages, memory_limiter, overflow_checks, store, exports,
                   mem_pages, blocks, mem, accepted, hostVars>>

CallMemoryHandle ==
    /\ Running
    /\ \E offs \in Offsets, c \in UbOrTrap :
          Apply("memory_handle", offs, memory_handle(Cur, offs, c))

CallMemoryBytes ==
    /\ Running
    /\ \E handle \in ReadHandles : \E c \in UbFor(handle) :
          Apply("memory_bytes", handle, memory_bytes(Cur, handle, c))

\* a host function stores a variable through vars_mut
CallVarsMut ==
    /\ Running
    /\ \E k \in VarKeys, v \in VarValues :
          /\ plugin_vars' = insert(plugin_vars, k, v)
          /\ last' = [op |-> "vars_mut", arg |-> <<k, v>>, out |-> Ok("()"),
                      calls |-> <<>>, views |-> <<>>]
    /\ UNCHANGED <<manifest, http_status, available_pages, memory_limiter,
                   overflow_checks, store, guestVars, accepted>>

CallMemoryAlloc ==
    /\ Running
    /\ \E n \in 0..MaxLen : \E c \in UbAndAlloc(n) :
          Apply("memory_alloc", n, memory_alloc(Cur, n, c))

CallMemoryFree ==
    /\ Running
    /\ \E handle \in HeldHandles, c \in UbOrTrap :
          Apply("memory_free", handle, memory_free(Cur, handle, c))

CallMemoryNew ==
    /\ Running
    /\ \E t \in Values : \E c \in UbAndAlloc(Len(to_bytes(t))) :
          Apply("memory_new", t, memory_new(Cur, t, c))

CallMemoryGet ==
    /\ Running
    /\ \E handle \in HeldHandles, type \in Types : \E c \in UbFor(handle) :
          Apply("memory_get", [handle |-> handle, type |-> type],
                memory_get(Cur, handle, type, c))

CallMemoryFromVal ==
    /\ Running
    /\ \E offs \in Vals, c \in UbOrTrap :
          Apply("memory_from_val", offs, memory_from_val(Cur, offs, c))

CallMemoryToVal ==
    /\ Running
    /\ \E handle \in HeldHandles :
          Apply("memory_to_val", handle, Ret(Ok(memory_to_val(handle)), <<>>, <<>>, Cur))

CallClearError ==
    /\ Running
    /\ \E c \in UbOrTrap : Apply("clear_error", "()", clear_error(Cur, c))

CallHasError ==
    /\ Running
    /\ \E c \in UbOrTrap : Apply("has_error", "()", has_error(Cur, c))

CallGetError ==
    /\ Running
    /\ \E c \in UbAndTrap : Apply("get_error", "()", get_error(Cur, c))

NextBridge ==
    \/ EnterCall \/ LeaveCall \/ GuestErrorSet
    \/ CallMemoryHandle \/ CallMemoryBytes \/ CallMemoryAlloc \/ CallMemoryFree
    \/ CallMemoryNew \/ CallMemoryGet \/ CallMemoryFromVal \/ CallMemoryToVal
    \/ CallClearError \/ CallHasError \/ CallGetError

SpecBridge == InitBridge /\ [][NextBridge]_vars

\* host functions that allocate, write and free blocks and keep variables
NextHost ==
    \/ EnterCall \/ LeaveCall \/ CallVarsMut
    \/ CallMemoryAlloc \/ CallMemoryFree \/ CallMemoryNew

SpecHost == InitBridge /\ [][NextHost]_vars

----------------------------------------------------------------------------
(* Claims about the limiter, checked under SpecLimiter *)

IsGrow == last.op = "memory_growing"
\* the limiter after the last call
Post == memory_limiter.v
\* the usize difference desired - current of the last request (wrapped)
Delta == last.desired - last.current
RejectedByMaximum == last.maximum.some /\ UGe(last.desired, last.maximum.v)
Rejected == last.res = "Err" /\ Post = last.pre
Allowed == last.res = "Ok(true)" /\ Post = [last.pre EXCEPT !.bytes_left = @ - Delta]
\* the decision the specification describes, on the delta as the code computes it
Decided ==
    IF RejectedByMaximum THEN Rejected
    ELSE IF UGt(Delta, last.pre.bytes_left) THEN Rejected
    ELSE Allowed

\* C1 as claimed: every memory-growth request, whatever current and desired are,
\* is rejected by the declared maximum (desired >= maximum), else rejected when
\* delta > bytes_left, else allowed with bytes_left decremented by delta.
C1_AsClaimed == IsGrow => Decided

\* C1 amended: the decision is as claimed for every request with
\* desired >= current; a request with desired < current that the maximum does
\* not reject panics in a build with overflow checks (limiter unchanged) and is
\* decided on the wrapped delta in a build without them.
C1_GrowthDecision ==
    IsGrow =>
        IF UGe(last.desired, last.current) \/ RejectedByMaximum \/ ~overflow_checks
        THEN Decided
        ELSE last.res = "panic" /\ Post = last.pre

\* an allowed growth of at least one page under a declared maximum
C1_Witness ==
    /\ IsGrow /\ last.res = "Ok(true)" /\ last.maximum.some
    /\ UGt(last.desired, last.current)
    /\ Post.bytes_left < last.pre.bytes_left

OnePage == available_pages = Some(1)
Fresh == last.pre.bytes_left = last.pre.max_bytes
Request(current, desired) == IsGrow /\ last.current = current /\ last.desired = desired
\* the budget is used up and the request asks for more memory
Exhausted == IsGrow /\ last.pre.bytes_left = 0 /\ UGt(last.desired, last.current)

\* C2 as claimed: with a page ceiling of 1, on a fresh limiter 0 -> 131072 is
\* rejected, 0 -> 65536 is accepted, exactly once, a later 65536 -> 131072 is
\* rejected, and with the budget consumed every request with a positive delta
\* is rejected.
C2_AsClaimed ==
    /\ OnePage /\ Request(0, 2 * PageSize) /\ Fresh => last.res = "Err"
    /\ OnePage /\ Request(0, PageSize) /\ Fresh => last.res = "Ok(true)"
    /\ OnePage => Len(accepted) <= 1
    /\ OnePage /\ Request(PageSize, 2 * PageSize) /\ ~Fresh => last.res = "Err"
    /\ Exhausted => last.res # "Ok(true)"

\* C2 amended: as claimed, where the 1-page request from zero is accepted when
\* its declared maximum is absent or above 65536 (desired >= maximum rejects
\* first); a rejection is the out-of-memory error, or the overflow panic when
\* the request wraps.
C2_OnePageBudget ==
    /\ OnePage /\ Request(0, 2 * PageSize) /\ Fresh => last.res = "Err"
    /\ OnePage /\ Request(0, PageSize) /\ Fresh /\ ~RejectedByMaximum
          => last.res = "Ok(true)" /\ Post.bytes_left = 0
    /\ OnePage /\ Request(0, PageSize) /\ Fresh /\ RejectedByMaximum => last.res = "Err"
    /\ OnePage => Len(accepted) <= 1
    /\ OnePage /\ Request(PageSize, 2 * PageSize) /\ ~Fresh => last.res = "Err"
    /\ Exhausted => last.res = "Err" /\ Post = last.pre

\* the second 1-page request, after the first one was accepted
C2_Witness ==
    /\ OnePage /\ accepted = <<PageSize>>
    /\ Request(PageSize, 2 * PageSize) /\ last.res = "Err"

WithinBudget == memory_limiter.some =>
    /\ 0 <= memory_limiter.v.bytes_left
    /\ memory_limiter.v.bytes_left <= memory_limiter.v.max_bytes
NoIncrease ==
    last'.op \in {"memory_growing", "table_growing"} =>
        /\ memory_limiter'.v.bytes_left <= memory_limiter.v.bytes_left
        /\ memory_limiter'.v.max_bytes = memory_limiter.v.max_bytes

\* C3: between resets bytes_left never increases and stays within
\* 0..max_bytes, also for requests with desired < current.
C3_MonotoneBudget == []WithinBudget /\ [][NoIncrease]_vars

\* a request with desired < current that reached the subtraction and consumed budget
C3_Witness ==
    /\ IsGrow /\ UGt(last.current, last.desired) /\ ~RejectedByMaximum
    /\ last.res = "Ok(true)" /\ Post.bytes_left < last.pre.bytes_left

IsTable == last.op = "table_growing"

\* C14: on_table_growth refuses exactly when a maximum is declared and
\* desired > maximum, allows otherwise (also desired = maximum, and anything
\* without a maximum), and leaves bytes_left and max_bytes as they were.
C14_TableGrowth ==
    IsTable =>
        /\ last.res \in {"Ok(true)", "Ok(false)"}
        /\ last.res = "Ok(false)" <=> (last.maximum.some /\ last.desired > last.maximum.v)
        /\ Post = last.pre

\* a table growth to exactly the maximum allowed with the byte budget used up
C14_Witness ==
    /\ IsTable /\ last.maximum = Some(last.desired) /\ last.res = "Ok(true)"
    /\ last.current < last.desired
    /\ last.pre.bytes_left = 0 /\ last.pre.max_bytes > 0

\* the limiter CurrentPlugin::new makes for the context's page ceiling
FreshLimiter == NewMemoryLimiter(available_pages).v

\* C15: reset() sets bytes_left to max_bytes and leaves max_bytes, so the
\* limiter is the one a new context with the same page ceiling has and
\* decides every request as that one does.
C15_Reset ==
    last.op = "reset" =>
        /\ Post = [last.pre EXCEPT !.bytes_left = last.pre.max_bytes]
        /\ Post = FreshLimiter
        /\ \A current \in Sizes, desired \in Sizes, maximum \in Maxima :
              memory_growing(Post, current, desired, maximum, overflow_checks)
                  = memory_growing(FreshLimiter, current, desired, maximum, overflow_checks)

\* a reset after two accepted growths
C15_Witness ==
    /\ last.op = "reset" /\ last.pre.bytes_left = 0 /\ last.pre.max_bytes = 2 * PageSize
    /\ Post.bytes_left = 2 * PageSize

NewContext == last = NoCall
PositiveGrowth == IsGrow /\ UGt(last.desired, last.current)

\* C16: a limiter is installed exactly when a page ceiling was declared; the
\* new context's limiter has max_bytes = bytes_left = max_pages * 65536; with
\* a ceiling of 0 pages every positive growth is rejected; without a ceiling
\* there is no limiter state.
C16_LimiterInstalled ==
    /\ memory_limiter.some <=> available_pages.some
    /\ ~available_pages.some => memory_limiter = None
    /\ available_pages.some => Post.max_bytes = available_pages.v * PageSize
    /\ NewContext /\ available_pages.some => Post.bytes_left = available_pages.v * PageSize
    /\ available_pages = Some(0) /\ PositiveGrowth => last.res = "Err" /\ Post = last.pre

\* a positive growth below the declared maximum rejected under a ceiling of 0 pages
C16_Witness ==
    /\ available_pages = Some(0) /\ memory_limiter = Some([max_bytes |-> 0, bytes_left |-> 0])
    /\ PositiveGrowth /\ ~RejectedByMaximum /\ last.res = "Err"

RECURSIVE Sum(_)
Sum(deltas) == IF deltas = <<>> THEN 0 ELSE Head(deltas) + Sum(Tail(deltas))

\* C20: the deltas of the growths accepted since the context was made or the
\* limiter reset add up to max_bytes - bytes_left, and so to at most
\* max_pages * 65536 bytes.
C20_BudgetAccounting ==
    memory_limiter.some =>
        /\ Sum(accepted) = Post.max_bytes - Post.bytes_left
        /\ Sum(accepted) <= available_pages.v * PageSize
        /\ \A i \in 1..Len(accepted) : accepted[i] > 0

\* two accepted growths of one page that use up a budget of two pages
C20_Witness ==
    /\ IsGrow /\ last.res = "Ok(true)"
    /\ accepted = <<PageSize, PageSize>> /\ Post.bytes_left = 0

\* the last request came straight after a rejected one
AfterRejection == IsGrow /\ last.prev = "Err"
\* the last request asks for Delta more bytes, within the budget it found and
\* below its declared maximum
FitsBudget ==
    /\ UGe(last.desired, last.current)
    /\ ~UGt(Delta, last.pre.bytes_left)
    /\ ~RejectedByMaximum

\* C21: a rejected memory-growth request leaves bytes_left and max_bytes as
\* they were, whether the maximum or the budget rejected it, and the request
\* after a rejection is accepted, and charged, when its delta fits in the
\* remaining budget and it is below its declared maximum.
C21_RejectionKeepsLimiter ==
    /\ IsGrow /\ last.res = "Err" => Post = last.pre
    /\ AfterRejection /\ FitsBudget =>
          /\ last.res = "Ok(true)"
          /\ Post = [last.pre EXCEPT !.bytes_left = @ - Delta]

\* a growth of one page accepted straight after a rejection, from a budget
\* that an earlier accepted growth had already drawn on
C21_Witness ==
    /\ AfterRejection /\ FitsBudget /\ last.res = "Ok(true)"
    /\ Delta = PageSize /\ Len(accepted) = 2
    /\ Post.bytes_left = last.pre.bytes_left - PageSize

----------------------------------------------------------------------------
(* Claims about the memory bridge, checked under SpecBridge (C12 under       *)
(* SpecHost)                                                                *)

\* the context is inside a host function callback
InCall == store = "valid"
\* r is the result tagged tag carrying v
Is(r, tag, v) == r.tag = tag /\ r.v = v
Malformed(h) == ~InBounds(Cur, h.offset, h.length)
IsRead == last.op = "memory_bytes" /\ InCall /\ "memory" \in exports

\* data_ptr + offset wraps to the null pointer
NullPointer(h) == DataPtr + h.offset = 0

\* C4: a successful read(handle) is a view of exactly handle.length bytes at
\* handle.offset inside the guest's linear memory, and a handle that leaves the
\* memory is a call failure, never a view.  (The empty result for a null
\* pointer is accepted, as the specification describes it.)
C4_ReadStaysInside ==
    IsRead /\ ~NullPointer(last.arg) =>
        /\ last.out.tag = "Ok" =>
              /\ last.out.v = View(last.arg.offset, last.arg.length)
              /\ ~Malformed(last.out.v)
        /\ Malformed(last.arg) => last.out.tag = "Err"

\* the operations that need the engine
NeedsEngine ==
    \/ last.op \in {"memory_handle", "memory_bytes", "memory_free", "memory_new",
                    "memory_get", "clear_error", "has_error", "get_error"}
    \/ last.op = "memory_alloc" /\ last.arg > 0

\* C5: an operation that needs the engine, called while the linker and store
\* references are null, fails with an error and neither calls the guest nor
\* touches guest memory.
C5_FailsFastOutsideCall ==
    NeedsEngine /\ ~InCall =>
        last.out.tag = "Err" /\ last.calls = <<>> /\ last.views = <<>>

\* C6: no bridge operation turns the sentinel handle {0, 0} into a view of
\* guest memory.  (Stated for the handles the bridge makes itself, leaving
\* aside a read of a handle the caller supplies.)
C6_SentinelNeverDereferenced ==
    last.op \notin {"memory_bytes", "memory_get"} =>
        \A i \in 1..Len(last.views) : last.views[i] # Sentinel

IsAllocZero == last'.op = "memory_alloc" /\ last'.arg = 0
AllocZeroStep ==
    IsAllocZero =>
        /\ Is(last'.out, "Ok", Sentinel)
        /\ last'.calls = <<>>
        /\ UNCHANGED <<guestVars, memory_limiter, accepted, store, available_pages>>

\* C7: allocate(0) returns the sentinel handle, calls no guest function and
\* changes no guest or limiter state, whatever state the context is in.
C7_AllocateZero == [][AllocZeroStep]_vars

\* allocate(0) outside a callback, with blocks live in the guest
C7_Witness ==
    /\ last.op = "memory_alloc" /\ last.arg = 0 /\ Is(last.out, "Ok", Sentinel)
    /\ ~InCall /\ blocks # {}

IsAlloc == last.op = "memory_alloc" /\ last.arg > 0 /\ InCall

\* C8: allocate(n), n > 0: without an allocator export it is an error and no
\* guest function is called; otherwise extism_alloc is called once with n, a
\* return of 0 is the out-of-memory error, and any other return is the offset
\* of the handle {offset, n}; a successful handle never has offset 0.
C8_AllocateDecision ==
    IsAlloc =>
        IF "extism_alloc" \notin exports
        THEN last.out.tag = "Err" /\ last.calls = <<>>
        ELSE /\ Len(last.calls) = 1
             /\ last.calls[1].f = "extism_alloc" /\ last.calls[1].arg = last.arg
             /\ IF last.calls[1].trap THEN Is(last.out, "Err", "trap")
                ELSE IF last.calls[1].ret = 0 THEN Is(last.out, "Err", "out of memory")
                ELSE Is(last.out, "Ok", MemoryHandle(last.calls[1].ret, last.arg))
             /\ last.out.tag = "Ok" => last.out.v.offset # 0

\* a successful allocation of a block the guest placed
C8_Witness ==
    /\ IsAlloc /\ last.out.tag = "Ok"
    /\ <<last.out.v.offset, last.out.v.length>> \in blocks

IsHandleFor == last.op = "memory_handle" /\ InCall /\ "extism_length" \in exports

\* C9: handle_for(offset) asks the guest's length export; it is absent exactly
\* when the guest reports 0 and otherwise the handle {offset, reported length}.
C9_HandleFor ==
    IsHandleFor =>
        /\ Len(last.calls) = 1
        /\ last.calls[1].f = "extism_length" /\ last.calls[1].arg = last.arg
        /\ last.calls[1].trap => last.out.tag = "panic"
        /\ ~last.calls[1].trap =>
              /\ last.calls[1].ret = extism_length(Cur, last.arg)
              /\ Is(last.out, "Ok", None) <=> (last.calls[1].ret = 0)
              /\ last.calls[1].ret # 0 =>
                    Is(last.out, "Ok", Some(MemoryHandle(last.arg, last.calls[1].ret)))

\* a handle for a live block of two bytes
C9_Witness ==
    IsHandleFor /\ Is(last.out, "Ok", Some(MemoryHandle(1, 2))) /\ <<1, 2>> \in blocks

\* write_value returns a handle as long as the encoding
WrittenLength ==
    last.op = "memory_new" /\ last.out.tag = "Ok" =>
        last.out.v.length = Len(to_bytes(last.arg))
\* read_value of the handle write_value just returned
ReadBack ==
    /\ last.op = "memory_new" /\ last.out.tag = "Ok"
    /\ last'.op = "memory_get"
    /\ last'.arg = [handle |-> last.out.v, type |-> last.arg.type]
RoundTrip == ReadBack => Is(last'.out, "Ok", last.arg)

\* C10: write_value(v) followed at once by read_value of the returned handle
\* yields v, and the handle is as long as v's encoding; also for the empty
\* encoding.
C10_RoundTrip == []WrittenLength /\ [][RoundTrip]_vars

\* a two-byte encoding read back as the string it encodes
C10_Witness ==
    /\ last.op = "memory_get" /\ Is(last.out, "Ok", Value("str", <<233>>))
    /\ last.arg.handle.length = 2

IsFromVal ==
    /\ last.op = "memory_from_val" /\ InCall /\ "extism_length" \in exports
    /\ last.out.tag # "panic"
\* the handle the guest's length export gives for offset now
Rederived(offset) ==
    LET len == extism_length(Cur, offset) IN
    IF len = 0 THEN None ELSE Some(MemoryHandle(offset, len))

\* C11: the call value of a handle depends on the handle's offset only, and
\* converting it back gives the handle of that offset with the length the
\* guest's length export reports now (absent when it reports 0), whatever
\* length the handle had.
C11_CallValue ==
    /\ \A h \in Handles :
          /\ memory_to_val(h) = memory_to_val(MemoryHandle(h.offset, 0))
          /\ memory_to_val(h).v = h.offset
    /\ IsFromVal =>
          \A h \in Handles :
              memory_to_val(h) = last.arg => Is(last.out, "Ok", Rederived(h.offset))

\* the value of a two-byte handle converted back after the guest freed the
\* block and reused its first byte
C11_Witness ==
    /\ IsFromVal /\ last.arg = memory_to_val(MemoryHandle(1, 2))
    /\ Is(last.out, "Ok", Some(MemoryHandle(1, 1)))
    /\ mem[2] = 169

AllocStep == last'.op = "memory_alloc" /\ last'.arg > 0
FreeStep == last'.op = "memory_free"
\* the bytes the guest's memory grows by in the step
Grown == (mem_pages' - mem_pages) * PageSize
FrameKept ==
    /\ AllocStep \/ FreeStep =>
          /\ UNCHANGED <<plugin_vars, manifest, http_status, available_pages>>
          /\ memory_limiter'.some = memory_limiter.some
          /\ memory_limiter.some =>
                memory_limiter'.v.max_bytes = memory_limiter.v.max_bytes
    /\ AllocStep /\ memory_limiter.some =>
          memory_limiter'.v.bytes_left = memory_limiter.v.bytes_left - Grown
    /\ FreeStep => memory_limiter' = memory_limiter

\* C12: allocate(n), n > 0, and free(handle) each leave the variables, the
\* manifest, the HTTP status, the page ceiling and max_bytes as they were; the
\* allocation takes from bytes_left what the guest's memory grew by, and free
\* gives nothing back, so after allocate and free only bytes_left has changed.
C12_AllocFreeFrame == [][FrameKept]_vars

\* a block freed after its allocation grew the memory against the budget,
\* with a variable stored
C12_Witness ==
    /\ last.op = "memory_free" /\ last.out.tag = "Ok" /\ blocks = {}
    /\ mem_pages = 2 /\ accepted = <<PageSize>>
    /\ memory_limiter = Some([max_bytes |-> PageSize, bytes_left |-> 0])
    /\ plugin_vars # {}

\* the guest exports the whole ABI and the context is inside a callback
FullAbi == InCall /\ exports = AllExports
\* the last operation completed: no guest call of it trapped
Completed == last.out.tag = "Ok"
\* the text at the stored error offset, of the length the guest reports
ErrorText == Utf8Decode(ReadBytes(Cur, error, extism_length(Cur, error)))

HasPending ==
    last.op = "has_error" /\ FullAbi /\ Completed =>
        /\ Len(last.calls) = 1 /\ last.calls[1].f = "extism_error_get"
        /\ last.calls[1].ret = error
        /\ last.out.v = (last.calls[1].ret # 0)
Cleared ==
    last.op = "clear_error" /\ FullAbi /\ Completed =>
        /\ last.calls = <<Call("extism_error_set", 0, FALSE, 0)>>
        /\ error = 0
GetMessage ==
    last.op = "get_error" /\ FullAbi =>
        /\ last.out.tag \in {"Ok", "panic"}
        /\ last.out.tag = "panic" <=> \E i \in 1..Len(last.calls) : last.calls[i].trap
        /\ Completed =>
              IF error = 0 THEN last.out.v = None
              ELSE IF ErrorText.ok THEN last.out.v = Some(ErrorText.cps)
              ELSE last.out.v = None
\* only the guest makes an error pending
StaysCleared == error = 0 /\ error' # 0 => last'.op = "guest_error_set"

\* C13: has_pending() is true exactly when the guest's error-get export
\* returns a non-zero offset; clear() stores offset zero, and until the guest
\* sets an error again the offset stays zero, so has_pending() is false and
\* get_message() absent; get_message() is the text at a non-zero offset when
\* the region of the guest-reported length is valid UTF-8, and absent, not an
\* error, when the offset is zero or the text does not decode.
C13_ErrorChannel == [](HasPending /\ Cleared /\ GetMessage) /\ [][StaysCleared]_vars

\* a pending error whose region is not valid UTF-8 read as absent
C13_Witness ==
    /\ last.op = "get_error" /\ FullAbi /\ Completed
    /\ error # 0 /\ ~ErrorText.ok /\ last.out.v = None

----------------------------------------------------------------------------
(* Claims about the manifest, checked under SpecManifest *)

\* the manifest was made without naming a timeout
NoTimeoutNamed ==
    \/ last.op \in {"Manifest::default", "Manifest::new"}
    \/ last.op = "deserialize" /\ \A e \in last.arg : e[1] # "timeout_ms"

\* C17: a manifest from Manifest::default(), like one from Manifest::new or
\* parsed without a timeout_ms field, has timeout_ms = Some(30000).
C17_DefaultTimeout == NoTimeoutNamed => manifest.timeout_ms = Some(30000)

IsDisallow == last.op = "disallow_all_hosts"

\* C18: disallow_all_hosts() leaves allowed_hosts the explicit empty list
\* Some([]), whatever hosts were configured before, while a manifest from
\* Manifest::new has allowed_hosts = None.
C18_DisallowAllHosts ==
    /\ IsDisallow => manifest.allowed_hosts = Some(<<>>) /\ manifest.allowed_hosts # None
    /\ last.op = "Manifest::new" => manifest.allowed_hosts = None

\* deny-all made explicit over a list of two configured hosts
C18_Witness ==
    /\ IsDisallow /\ last.old.some /\ Len(last.old.v) = 2
    /\ manifest.allowed_hosts = Some(<<>>)

\* the entries of allowed_paths
Paths == IF manifest.allowed_paths.some THEN manifest.allowed_paths.v ELSE {}
GuestPathsUnique == \A e \in Paths, f \in Paths : e[2] = f[2] => e = f
HostPathsUnique == \A e \in Paths, f \in Paths : e[1] = f[1] => e = f
\* index i is the last item of the list for its host path
LastFor(list, i) == \A j \in (i + 1)..Len(list) : list[j][1] # list[i][1]

\* C19 as claimed: the guest-visible paths of allowed_paths are unique, no two
\* entries map different host paths to the same guest path.
C19_AsClaimed == GuestPathsUnique

\* C19 amended: the host paths of allowed_paths are unique; with_allowed_path
\* of a host path already in use replaces that entry and keeps the others
\* (the later entry wins), with_allowed_paths keeps for each host path the
\* last item naming it; two host paths may map to the same guest path.
C19_AllowedPaths ==
    /\ HostPathsUnique
    /\ last.op = "with_allowed_path" => last.arg \in Paths
    /\ last.op = "with_allowed_paths" =>
          Paths = {last.arg[i] : i \in {j \in 1..Len(last.arg) : LastFor(last.arg, j)}}

\* a host path mapped again: the later guest path replaced the earlier one,
\* and it is also the guest path of another host path
C19_Witness ==
    /\ last.op = "with_allowed_path" /\ last.arg = <<".", "/tmp">>
    /\ Paths = {<<".", "/tmp">>, <<"/data", "/tmp">>}

ManifestFields == {"wasm", "memory", "config", "allowed_hosts", "allowed_paths", "timeout_ms"}
\* the step changes no field of the manifest but, at most, field
Only(field) == \A f \in ManifestFields \ {field} : manifest'[f] = manifest[f]
\* the list of hosts before the step, the absent list read as the empty one
HostsBefore == IF manifest.allowed_hosts.some THEN manifest.allowed_hosts.v ELSE <<>>
Keys(m) == {e[1] : e \in m}
ValueAt(m, k) == (CHOOSE e \in m : e[1] = k)[2]
\* the value the last of the items naming key k gives it
LastWrite(items, k) ==
    items[CHOOSE i \in 1..Len(items) : items[i][1] = k /\ LastFor(items, i)][2]
\* the step merges the <<key, value>> items into config
Merged(items) ==
    LET written == {items[i][1] : i \in 1..Len(items)} IN
    /\ Keys(manifest'.config) = Keys(manifest.config) \cup written
    /\ Cardinality(manifest'.config) = Cardinality(Keys(manifest'.config))
    /\ \A k \in Keys(manifest'.config) :
          ValueAt(manifest'.config, k) =
              IF k \in written THEN LastWrite(items, k) ELSE ValueAt(manifest.config, k)

BuilderFrame ==
    LET op == last'.op
        arg == last'.arg IN
    /\ op \in {"with_memory_max", "with_memory_options"} => Only("memory")
    /\ op = "with_memory_max" => manifest'.memory.max_pages = Some(arg)
    /\ op = "with_memory_options" => manifest'.memory = arg
    /\ op \in {"disallow_all_hosts", "with_allowed_host", "with_allowed_hosts"}
          => Only("allowed_hosts")
    /\ op = "with_allowed_host" => manifest'.allowed_hosts = Some(Append(HostsBefore, arg))
    /\ op = "with_allowed_hosts" => manifest'.allowed_hosts = Some(arg)
    /\ op \in {"with_allowed_path", "with_allowed_paths"} => Only("allowed_paths")
    /\ op \in {"with_config", "with_config_key"} => Only("config")
    /\ op = "with_config" => Merged(arg)
    /\ op = "with_config_key" => Merged(<<arg>>)
    /\ op = "with_timeout" =>
          Only("timeout_ms") /\ manifest'.timeout_ms = Some(as_millis(arg))

\* C22: each builder operation changes only the field it is about:
\* with_memory_max and with_memory_options only memory; disallow_all_hosts,
\* with_allowed_host (appending to the list) and with_allowed_hosts
\* (replacing it) only allowed_hosts; with_allowed_path and
\* with_allowed_paths only allowed_paths; with_config and with_config_key
\* only config, merging: the last write of a key wins and no key is removed;
\* with_timeout only timeout_ms.
C22_BuilderFrame == [][BuilderFrame]_vars

\* with_config overwriting one key twice beside a key it does not name, in a
\* manifest whose other fields have all been set
C22_Witness ==
    /\ last.op = "with_config" /\ last.arg = <<<<"a", "1">>, <<"a", "2">>>>
    /\ manifest.config = {<<"a", "2">>, <<"b", "1">>}
    /\ manifest.wasm # <<>> /\ manifest.memory.max_pages.some
    /\ manifest.allowed_hosts.some /\ Len(manifest.allowed_hosts.v) = 2
    /\ manifest.allowed_paths.some /\ manifest.timeout_ms = Some(1)

====
